---- MODULE Spec2Model ----
(***************************************************************************)
(* Model of the WhatsApp tyre-fitting booking bot (src/app.py).            *)
(*                                                                         *)
(* Texts (message bodies, stored field values) are sequences of one        *)
(* character strings, so that strip/lower/upper, the regular expressions   *)
(* and strptime are computed character by character.  The two SQLite       *)
(* tables are the variables conversations and bookings (rows in insertion  *)
(* order, the PRIMARY KEY of conversations being enforced by the INSERT).   *)
(* The timestamp columns updated_at / created_at are not modelled.         *)
(***************************************************************************)
EXTENDS Integers, Sequences, FiniteSets, TLC

\* ------------------------------------------------------------------------
\* Bounds
\* ------------------------------------------------------------------------
\* at most this many rows in the bookings table
MaxBookings == 2

\* the number of handlers, each running whatsapp() for one message at a time
NumHandlers == 2

\* ------------------------------------------------------------------------
\* Characters
\* ------------------------------------------------------------------------
LowerLetters ==
  <<"a","b","c","d","e","f","g","h","i","j","k","l","m",
    "n","o","p","q","r","s","t","u","v","w","x","y","z">>

UpperLetters ==
  <<"A","B","C","D","E","F","G","H","I","J","K","L","M",
    "N","O","P","Q","R","S","T","U","V","W","X","Y","Z">>

Digits == <<"0","1","2","3","4","5","6","7","8","9">>

Range(f) == { f[i] : i \in DOMAIN f }

\* what str.strip() removes and what \s matches
Whitespace == {" ", "\t", "\n"}

\* \d
DigitCls == Range(Digits)

IsDigit(c) == c \in DigitCls

\* the value of a decimal digit character
DigitVal(c) == (CHOOSE i \in DOMAIN Digits : Digits[i] = c) - 1

DigitChar(n) == Digits[n + 1]

\* two decimal digits, zero padded (%02d)
Pad2(n) == <<DigitChar(n \div 10), DigitChar(n % 10)>>

\* four decimal digits, zero padded (%04d)
Pad4(n) ==
  <<DigitChar(n \div 1000), DigitChar((n \div 100) % 10),
    DigitChar((n \div 10) % 10), DigitChar(n % 10)>>

UpperCls == Range(UpperLetters)

LowerCls == Range(LowerLetters)

LowerChar(c) ==
  IF c \in UpperCls
  THEN LowerLetters[CHOOSE i \in DOMAIN UpperLetters : UpperLetters[i] = c]
  ELSE c

UpperChar(c) ==
  IF c \in LowerCls
  THEN UpperLetters[CHOOSE i \in DOMAIN LowerLetters : LowerLetters[i] = c]
  ELSE c

\* str.lower() and str.upper()
Lower(s) == [i \in DOMAIN s |-> LowerChar(s[i])]

Upper(s) == [i \in DOMAIN s |-> UpperChar(s[i])]

\* str.strip(): drop leading and trailing whitespace
Strip(s) ==
  LET keep == { i \in DOMAIN s : s[i] \notin Whitespace }
  IN  IF keep = {} THEN <<>>
      ELSE LET lo == CHOOSE i \in keep : \A j \in keep : i <= j
               hi == CHOOSE i \in keep : \A j \in keep : j <= i
           IN  SubSeq(s, lo, hi)

\* str.replace(a, b) for single characters a, and b a text
RECURSIVE ReplaceChar(_, _, _)
ReplaceChar(s, a, b) ==
  IF s = <<>> THEN <<>>
  ELSE (IF Head(s) = a THEN b ELSE <<Head(s)>>) \o ReplaceChar(Tail(s), a, b)

\* re.sub(r"\s+", " ", s): every run of whitespace becomes one space
RECURSIVE CollapseWs(_)
CollapseWs(s) ==
  IF s = <<>> THEN <<>>
  ELSE IF Head(s) \in Whitespace
       THEN IF Len(s) > 1 /\ s[2] \in Whitespace
            THEN CollapseWs(Tail(s))
            ELSE <<" ">> \o CollapseWs(Tail(s))
       ELSE <<Head(s)>> \o CollapseWs(Tail(s))

\* the value None; a text is falsy when it is None or empty
None == <<"None">>

Falsy(v) == v = None \/ v = <<>>

\* ------------------------------------------------------------------------
\* Text utilities (src/app.py 75-79)
\* ------------------------------------------------------------------------
norm(s) == Strip(s)

norm_lower(s) == Lower(norm(s))

\* ------------------------------------------------------------------------
\* Regular expressions: a pattern is a sequence of items, each a character
\* class repeated between lo and hi times; the pattern is anchored at both
\* ends.  ReMatch is true when some choice of repetition counts consumes
\* the whole text.
\* ------------------------------------------------------------------------
Item(cls, lo, hi) == [cls |-> cls, lo |-> lo, hi |-> hi, star |-> FALSE]

\* cls* : any number of repetitions
Star(cls) == [cls |-> cls, lo |-> 0, hi |-> 0, star |-> TRUE]

RECURSIVE ReMatchFrom(_, _, _, _)
ReMatchFrom(pat, i, s, j) ==
  IF i > Len(pat) THEN j = Len(s) + 1
  ELSE LET left == Len(s) - j + 1
           hi   == IF pat[i].star \/ pat[i].hi > left THEN left ELSE pat[i].hi
       IN  \E k \in pat[i].lo .. hi :
              /\ \A x \in j .. (j + k - 1) : s[x] \in pat[i].cls
              /\ ReMatchFrom(pat, i + 1, s, j + k)

ReMatch(pat, s) == ReMatchFrom(pat, 1, s, 1)

\* [A-Z] under re.IGNORECASE
LetterCls == UpperCls \cup LowerCls

\* a variant of TYRE_PATTERN: no construction letter between aspect and rim
TYRE_PATTERN_NoLetter ==
  << Star(Whitespace), Item(DigitCls, 3, 3), Star(Whitespace),
     Item({"/"}, 1, 1), Star(Whitespace), Item(DigitCls, 2, 2),
     Star(Whitespace), Item(DigitCls, 2, 2), Star(Whitespace) >>

\* ^\s*(\d{3})\s*\/\s*(\d{2})\s*[Rr]?\s*(\d{2})\s*$
TYRE_PATTERN ==
  << Star(Whitespace), Item(DigitCls, 3, 3), Star(Whitespace),
     Item({"/"}, 1, 1), Star(Whitespace), Item(DigitCls, 2, 2),
     Star(Whitespace), Item({"R", "r"}, 0, 1), Star(Whitespace),
     Item(DigitCls, 2, 2), Star(Whitespace) >>

\* ^[A-Z]{1,2}\d[A-Z\d]?\s*\d[A-Z]{2}$  (IGNORECASE)
POSTCODE_PATTERN ==
  << Item(LetterCls, 1, 2), Item(DigitCls, 1, 1),
     Item(LetterCls \cup DigitCls, 0, 1), Star(Whitespace),
     Item(DigitCls, 1, 1), Item(LetterCls, 2, 2) >>

\* ------------------------------------------------------------------------
\* Validation / parsing (src/app.py 101-143)
\* ------------------------------------------------------------------------
\* the groups of TYRE_PATTERN are its seven digits, in order
parse_tyre_size(text) ==
  LET t == ReplaceChar(norm(text), " ", <<>>)
      u == ReplaceChar(t, "R", <<"r">>)
      d == SelectSeq(u, IsDigit)
  IN  IF ~ReMatch(TYRE_PATTERN, u) THEN None
      ELSE SubSeq(d, 1, 3) \o <<"/">> \o SubSeq(d, 4, 5) \o <<"R">> \o SubSeq(d, 6, 7)

parse_postcode(text) ==
  LET t == CollapseWs(Upper(norm(text)))
  IN  IF ReMatch(POSTCODE_PATTERN, t) THEN t ELSE None

\* the character at position j, or "" past the end
Ch(s, j) == IF j \in DOMAIN s THEN s[j] ELSE ""

NonZeroDigits == DigitCls \ {"0"}

\* the number written by a run of digits and spaces (spaces count nothing)
RECURSIVE NumVal(_)
NumVal(s) ==
  IF s = <<>> THEN 0
  ELSE IF IsDigit(s[Len(s)])
       THEN 10 * NumVal(SubSeq(s, 1, Len(s) - 1)) + DigitVal(s[Len(s)])
       ELSE NumVal(SubSeq(s, 1, Len(s) - 1))

\* strptime's %m at position j, 1[0-2]|0[1-9]|[1-9]: the length it consumes,
\* 0 when it does not match (the first alternative that matches is taken)
StrpMonthLen(s, j) ==
  IF Ch(s, j) = "1" /\ Ch(s, j + 1) \in {"0", "1", "2"} THEN 2
  ELSE IF Ch(s, j) = "0" /\ Ch(s, j + 1) \in NonZeroDigits THEN 2
  ELSE IF Ch(s, j) \in NonZeroDigits THEN 1
  ELSE 0

\* strptime's %d: 3[0-1]|[1-2]\d|0[1-9]|[1-9]| [1-9]
StrpDayLen(s, j) ==
  IF Ch(s, j) = "3" /\ Ch(s, j + 1) \in {"0", "1"} THEN 2
  ELSE IF Ch(s, j) \in {"1", "2"} /\ IsDigit(Ch(s, j + 1)) THEN 2
  ELSE IF Ch(s, j) = "0" /\ Ch(s, j + 1) \in NonZeroDigits THEN 2
  ELSE IF Ch(s, j) \in NonZeroDigits THEN 1
  ELSE IF Ch(s, j) = " " /\ Ch(s, j + 1) \in NonZeroDigits THEN 2
  ELSE 0

\* strptime's %H: 2[0-3]|[0-1]\d|\d
StrpHourLen(s, j) ==
  IF Ch(s, j) = "2" /\ Ch(s, j + 1) \in {"0", "1", "2", "3"} THEN 2
  ELSE IF Ch(s, j) \in {"0", "1"} /\ IsDigit(Ch(s, j + 1)) THEN 2
  ELSE IF IsDigit(Ch(s, j)) THEN 1
  ELSE 0

\* strptime's %M: [0-5]\d|\d
StrpMinuteLen(s, j) ==
  IF Ch(s, j) \in {"0", "1", "2", "3", "4", "5"} /\ IsDigit(Ch(s, j + 1)) THEN 2
  ELSE IF IsDigit(Ch(s, j)) THEN 1
  ELSE 0

IsLeap(y) == y % 4 = 0 /\ (y % 100 # 0 \/ y % 400 = 0)

DaysInMonth(y, m) ==
  IF m = 2 THEN (IF IsLeap(y) THEN 29 ELSE 28)
  ELSE IF m \in {4, 6, 9, 11} THEN 30 ELSE 31

\* datetime.strptime(t, "%Y-%m-%d").date(): the date <<y, m, d>>, or None
\* for ValueError (no match, unconverted data, or no such calendar day)
StrpDate(t) ==
  LET ml == StrpMonthLen(t, 6)
      dl == StrpDayLen(t, 7 + ml)
      y  == NumVal(SubSeq(t, 1, 4))
      m  == NumVal(SubSeq(t, 6, 5 + ml))
      d  == NumVal(SubSeq(t, 7 + ml, 6 + ml + dl))
  IN  IF /\ Len(t) >= 4
         /\ \A i \in 1 .. 4 : IsDigit(t[i])
         /\ Ch(t, 5) = "-"
         /\ ml > 0
         /\ Ch(t, 6 + ml) = "-"
         /\ dl > 0
         /\ Len(t) = 6 + ml + dl
         /\ y >= 1
         /\ d <= DaysInMonth(y, m)
      THEN <<y, m, d>>
      ELSE None

\* date.__lt__
DateLess(a, b) ==
  \/ a[1] < b[1]
  \/ a[1] = b[1] /\ a[2] < b[2]
  \/ a[1] = b[1] /\ a[2] = b[2] /\ a[3] < b[3]

\* date.isoformat()
IsoFormat(d) == Pad4(d[1]) \o <<"-">> \o Pad2(d[2]) \o <<"-">> \o Pad2(d[3])

\* today is the value of date.today(): the calendar day in the time zone of
\* the server process
parse_date_yyyy_mm_dd(text, today) ==
  LET d == StrpDate(norm(text))
  IN  IF d = None THEN None
      ELSE IF DateLess(d, today) THEN None
      ELSE IsoFormat(d)

\* datetime.strptime(t, "%H:%M").time(): <<hour, minute>>, or None
StrpTime(t) ==
  LET hl == StrpHourLen(t, 1)
      ml == StrpMinuteLen(t, 2 + hl)
  IN  IF /\ hl > 0
         /\ Ch(t, 1 + hl) = ":"
         /\ ml > 0
         /\ Len(t) = 1 + hl + ml
      THEN <<NumVal(SubSeq(t, 1, hl)), NumVal(SubSeq(t, 2 + hl, 1 + hl + ml))>>
      ELSE None

parse_time_hh_mm(text) ==
  LET tm == StrpTime(norm(text))
  IN  IF tm = None THEN None
      ELSE Pad2(tm[1]) \o <<":">> \o Pad2(tm[2])

\* ------------------------------------------------------------------------
\* Keywords of the webhook (src/app.py 323-351, 379-380, 403, 417)
\* ------------------------------------------------------------------------
KW_MENU ==
  { <<"m","e","n","u">>,
    <<"s","t","a","r","t">> }

KW_CANCEL ==
  { <<"c","a","n","c","e","l">>,
    <<"r","e","s","e","t">> }

KW_INFO ==
  { <<"2">>,
    <<"i","n","f","o">>,
    <<"h","e","l","p">> }

KW_STATUS ==
  { <<"3">>,
    <<"s","t","a","t","u","s">> }

KW_BOOK ==
  { <<"1">>,
    <<"b","o","o","k">>,
    <<"b","o","o","k","i","n","g">> }

KW_YES ==
  { <<"y","e","s">>,
    <<"y">> }

KW_NO ==
  { <<"n","o">>,
    <<"n">> }

L_BUDGET == <<"B","u","d","g","e","t">>

L_MIDRANGE == <<"M","i","d","-","r","a","n","g","e">>

L_PREMIUM == <<"P","r","e","m","i","u","m">>

\* budget_map.get(text)
budget_map(text) ==
  IF text \in {<<"1">>, <<"b","u","d","g","e","t">>} THEN L_BUDGET
  ELSE IF text \in {<<"2">>, <<"m","i","d">>, <<"m","i","d","-","r","a","n","g","e">>} THEN L_MIDRANGE
  ELSE IF text \in {<<"3">>, <<"p","r","e","m","i","u","m">>} THEN L_PREMIUM
  ELSE None

\* ------------------------------------------------------------------------
\* The two tables (src/app.py 36-68) and their statements.  A table is the
\* sequence of its rows in insertion order.
\* ------------------------------------------------------------------------
STEPS ==
  {"MENU", "ASK_TYRE", "ASK_POSTCODE", "ASK_BUDGET", "ASK_DATE", "ASK_TIME", "CONFIRM"}

needed == <<"tyre_size", "postcode", "budget", "preferred_date", "preferred_time">>

\* fetchone() finding no row
NoRow == [user_id |-> "None"]

\* the columns of a conversations row other than its key
Cols(step, tyre, pc, bud, d, tm) ==
  [step |-> step, tyre_size |-> tyre, postcode |-> pc, budget |-> bud,
   preferred_date |-> d, preferred_time |-> tm]

\* the keyword arguments of one upsert_conv call: the columns named, and
\* their values (vals of a column not named is not used)
Fields(cols, vals) == [cols |-> cols, vals |-> vals]

NoFields == Fields({}, Cols("MENU", None, None, None, None, None))

\* upsert_conv(user_id, step=s)
StepOnly(s) == Fields({"step"}, Cols(s, None, None, None, None, None))

\* upsert_conv(user_id, step=s, tyre_size=None, ..., preferred_time=None)
StepAndClear(s) ==
  Fields({"step"} \cup Range(needed), Cols(s, None, None, None, None, None))

\* upsert_conv(user_id, step=s, <col>=v)
StepAndField(s, col, v) ==
  Fields({"step", col},
         [Cols(s, None, None, None, None, None) EXCEPT ![col] = v])

\* SELECT * FROM conversations WHERE user_id = ?  (fetchone)
get_conv(convs, user_id) ==
  LET hits == { i \in DOMAIN convs : convs[i].user_id = user_id }
  IN  IF hits = {} THEN NoRow
      ELSE convs[CHOOSE i \in hits : \A j \in hits : i <= j]

\* a variant of UpdateConv: the UPDATE has no WHERE clause
UpdateConv_AllRows(convs, user_id, fields) ==
  [i \in DOMAIN convs |->
     [k \in DOMAIN convs[i] |->
        IF k \in fields.cols THEN fields.vals[k] ELSE convs[i][k]]]

\* UPDATE conversations SET <cols> WHERE user_id = ?
UpdateConv(convs, user_id, fields) ==
  [i \in DOMAIN convs |->
     IF convs[i].user_id = user_id
     THEN [k \in DOMAIN convs[i] |->
             IF k \in fields.cols THEN fields.vals[k] ELSE convs[i][k]]
     ELSE convs[i]]

\* the row upsert_conv inserts: the defaults, overwritten by the fields
NewRow(user_id, fields) ==
  LET base == Cols("MENU", None, None, None, None, None)
  IN  [k \in {"user_id"} \cup DOMAIN base |->
         IF k = "user_id" THEN user_id
         ELSE IF k \in fields.cols THEN fields.vals[k] ELSE base[k]]

\* a variant of InsertConv: the table has no PRIMARY KEY
InsertConv_NoKey(convs, row) == [ok |-> TRUE, table |-> Append(convs, row)]

\* INSERT INTO conversations: user_id is the PRIMARY KEY, so inserting a
\* second row for a user raises sqlite3.IntegrityError (ok = FALSE)
InsertConv(convs, row) ==
  IF \E i \in DOMAIN convs : convs[i].user_id = row.user_id
  THEN [ok |-> FALSE, table |-> convs]
  ELSE [ok |-> TRUE, table |-> Append(convs, row)]

\* a variant of latest_booking_for_user: ORDER BY id ASC
latest_booking_for_user_Oldest(bks, user_id) ==
  LET hits == { i \in DOMAIN bks : bks[i].user_id = user_id }
  IN  IF hits = {} THEN NoRow
      ELSE bks[CHOOSE i \in hits : \A j \in hits : bks[i].id <= bks[j].id]

\* SELECT * FROM bookings WHERE user_id = ? ORDER BY id DESC LIMIT 1
latest_booking_for_user(bks, user_id) ==
  LET hits == { i \in DOMAIN bks : bks[i].user_id = user_id }
  IN  IF hits = {} THEN NoRow
      ELSE bks[CHOOSE i \in hits : \A j \in hits : bks[j].id <= bks[i].id]

\* a variant of InsertBooking: a user's earlier bookings are replaced
InsertBooking_OnePerUser(bks, user_id, conv) ==
  Append(SelectSeq(bks, LAMBDA r : r.user_id # user_id),
         [id |-> Len(bks) + 1, user_id |-> user_id,
          tyre_size |-> conv.tyre_size, postcode |-> conv.postcode,
          budget |-> conv.budget, preferred_date |-> conv.preferred_date,
          preferred_time |-> conv.preferred_time, status |-> "CONFIRMED"])

\* INSERT INTO bookings: id is INTEGER PRIMARY KEY AUTOINCREMENT, and no row
\* is ever deleted, so the next id is one more than the number of rows
InsertBooking(bks, user_id, conv) ==
  Append(bks,
         [id |-> Len(bks) + 1, user_id |-> user_id,
          tyre_size |-> conv.tyre_size, postcode |-> conv.postcode,
          budget |-> conv.budget, preferred_date |-> conv.preferred_date,
          preferred_time |-> conv.preferred_time, status |-> "CONFIRMED"])

\* the five collected fields of a conversations or bookings row
FiveOf(r) ==
  <<r.tyre_size, r.postcode, r.budget, r.preferred_date, r.preferred_time>>

\* ------------------------------------------------------------------------
\* Inputs
\* ------------------------------------------------------------------------
Users == {"u1", "u2"}

Handlers == 1 .. NumHandlers

\* command words, in several spellings
CommandBodies ==
  { <<"m","e","n","u">>,
    <<" ","S","t","a","r","t"," ">>,
    <<"c","a","n","c","e","l">>,
    <<"i","n","f","o">>,
    <<"s","t","a","t","u","s">>,
    <<"b","o","o","k">>,
    <<"h","i">> }

\* the numerals of the menu, which are also the numerals of the budget prompt
NumeralBodies ==
  { <<"1">>,
    <<"2">>,
    <<"3">> }

TyreBodies ==
  { <<"2","2","5","/","4","0","R","1","8">>,
    <<" ","2","2","5","/","4","0"," ","r","1","8">>,
    <<"2","2","5","/","4","0">> }

PostcodeBodies ==
  { <<"b","7","4","2","a","a">>,
    <<"B","7","4"," "," ","2","a","a">>,
    <<"b","7","4","2","a">> }

BudgetBodies ==
  { <<"m","i","d">>,
    <<"M","i","d","-","R","a","n","g","e">>,
    <<"c","h","e","a","p">> }

DateBodies ==
  { <<"2","0","2","6","-","0","3","-","0","5">>,
    <<"2","0","2","6","-","3","-","5">>,
    <<"2","0","2","6","-","0","2","-","3","0">> }

TimeBodies ==
  { <<"0","9",":","0","5">>,
    <<"9",":","5">>,
    <<"2","4",":","0","0">> }

ConfirmBodies ==
  { <<"Y","E","S">>,
    <<"y">>,
    <<"n","o">> }

Bodies ==
  CommandBodies \cup NumeralBodies \cup TyreBodies \cup PostcodeBodies
    \cup BudgetBodies \cup DateBodies \cup TimeBodies \cup ConfirmBodies

\* the second user only greets and asks for the status
BystanderBodies ==
  { <<"h","i">>,
    <<"s","t","a","t","u","s">> }

BodiesOf(u) == IF u = "u1" THEN Bodies ELSE BystanderBodies

\* the messages that arrive while another message is being handled
ConcBodies ==
  { <<"h","i">>,
    <<"c","a","n","c","e","l">>,
    <<"s","t","a","t","u","s">>,
    <<"0","9",":","0","5">>,
    <<"y","e","s">> }

\* the calendar days a message may arrive on, consecutive
Days == << <<2026, 3, 4>>, <<2026, 3, 5>>, <<2026, 3, 6>> >>

NoDay == <<0, 0, 0>>

\* the clock when a message is handled: today is the calendar day in the
\* time zone of the server process (date.today()), todayApp the calendar
\* day in APP_TIMEZONE; the two zones are at most a day apart
Envs ==
  { [today |-> Days[i], todayApp |-> Days[j]] :
      <<i, j>> \in { x \in (DOMAIN Days) \X (DOMAIN Days) :
                       x[1] - x[2] \in {-1, 0, 1} } }

NoEnv == [today |-> NoDay, todayApp |-> NoDay]

\* every message body of the model, and what the text utilities and the
\* parsers make of each (tabulated once)
AllBodies == Bodies \cup BystanderBodies \cup ConcBodies

TextOf == [body \in AllBodies |-> norm_lower(body)] @@ <<>>

TyreOf == [body \in AllBodies |-> parse_tyre_size(body)] @@ <<>>

PostcodeOf == [body \in AllBodies |-> parse_postcode(body)] @@ <<>>

DateOf ==
  [x \in AllBodies \X (Range(Days) \cup {NoDay}) |-> parse_date_yyyy_mm_dd(x[1], x[2])] @@ <<>>

TimeOf == [body \in AllBodies |-> parse_time_hh_mm(body)] @@ <<>>

\* whether parse_date_yyyy_mm_dd gets as far as date.today() (line 129):
\* strptime has accepted the text
ReadsClock == [body \in AllBodies |-> StrpDate(norm(body)) # None] @@ <<>>

\* ------------------------------------------------------------------------
\* One webhook invocation (src/app.py 309-423).  A handler runs whatsapp()
\* for one message; pc names the database statement it executes next, and
\* each step below is that statement together with the local computation
\* up to the next statement.
\* ------------------------------------------------------------------------
Reply(kind, data) == [kind |-> kind, data |-> data]

NoReply == Reply("", <<>>)

\* a handler that is not handling a message; step is the step the dispatch
\* read (line 357) and booking what create_booking_from_conv returned
\* (line 404), both kept after the response
IdleHandler ==
  [pc |-> "idle", user |-> "", body |-> <<>>,
   fields |-> NoFields, existing |-> FALSE, ret |-> "", pending |-> NoReply,
   conv |-> NoRow, replies |-> <<>>, http |-> 0,
   pre |-> [convs |-> <<>>, bks |-> <<>>],
   today |-> NoDay, todayApp |-> NoDay,
   step |-> "", booking |-> NoRow]

World(c, b, h) == [c |-> c, b |-> b, h |-> h]

ClearLocals(h) ==
  [h EXCEPT !.fields = NoFields, !.existing = FALSE, !.ret = "",
            !.pending = NoReply, !.conv = NoRow]

\* return twiml(text): the response carries one message
Return(h, reply) ==
  [ClearLocals(h) EXCEPT !.pc = "done", !.http = 200,
                         !.replies = Append(h.replies, reply)]

\* an exception leaves whatsapp(): Flask answers 500, without a message
Raise(h) == [ClearLocals(h) EXCEPT !.pc = "done", !.http = 500]

\* call upsert_conv(user_id, **fields); ret says where the caller goes on
\* and pending is the reply the caller returns right after the call
CallUpsert(h, fields, ret, pending) ==
  [h EXCEPT !.pc = "upsert_select", !.fields = fields, !.ret = ret,
            !.pending = pending]

\* a variant of MenuFields: menu handled like reset
MenuFields_Clears == StepAndClear("MENU")

\* line 324: upsert_conv(user_id, step="MENU")
MenuFields == StepOnly("MENU")

\* a variant of ResetFields: reset_conv forgets the five fields
ResetFields_StepOnly == StepOnly("MENU")

\* lines 191-200: reset_conv(user_id)
ResetFields == StepAndClear("MENU")

\* a variant of InfoFields: info handled like reset
InfoFields_Clears == StepAndClear("MENU")

\* line 332: upsert_conv(user_id, step="MENU")
InfoFields == StepOnly("MENU")

\* a variant of BookFields: a new booking keeps what was collected before
BookFields_StepOnly == StepOnly("ASK_TYRE")

\* lines 352-353: upsert_conv(user_id, step="ASK_TYRE", tyre_size=None, ...)
BookFields == StepAndClear("ASK_TYRE")

\* lines 322-354: the global commands and "start booking", tried in this
\* order before the step is read
GlobalCommands(h) ==
  LET text == TextOf[h.body]
  IN  IF text \in KW_MENU
      THEN CallUpsert(h, MenuFields, "return", Reply("menu", <<>>))
      ELSE IF text \in KW_CANCEL
      THEN CallUpsert(h, ResetFields, "return", Reply("cancelled", <<>>))
      ELSE IF text \in KW_INFO
      THEN CallUpsert(h, InfoFields, "return", Reply("info", <<>>))
      ELSE IF text \in KW_STATUS
      THEN [h EXCEPT !.pc = "status"]
      ELSE IF text \in KW_BOOK
      THEN CallUpsert(h, BookFields, "return", Reply("ask_tyre", <<>>))
      ELSE [h EXCEPT !.pc = "read_step"]

\* lines 312-320: the request arrives and get_conv looks for the row
Receive(c, b, user, body) ==
  LET h == [IdleHandler EXCEPT !.user = user, !.body = body,
                               !.pre = [convs |-> c, bks |-> b]]
  IN  World(c, b,
            IF get_conv(c, user) = NoRow
            THEN CallUpsert(h, StepOnly("MENU"), "global", NoReply)
            ELSE GlobalCommands(h))

\* line 167: upsert_conv's SELECT
UpsertSelect(c, b, h) ==
  World(c, b, [h EXCEPT !.pc = "upsert_write",
                        !.existing = (get_conv(c, h.user) # NoRow)])

\* where whatsapp() goes on when upsert_conv has returned
AfterUpsert(h) ==
  IF h.ret = "global" THEN GlobalCommands(ClearLocals(h))
  ELSE IF h.ret = "confirm_text" THEN [ClearLocals(h) EXCEPT !.pc = "get_confirm"]
  ELSE Return(h, h.pending)

\* lines 168-189: upsert_conv's UPDATE or INSERT, and its commit
UpsertWrite(c, b, h) ==
  IF h.existing
  THEN World(UpdateConv(c, h.user, h.fields), b, AfterUpsert(h))
  ELSE LET r == InsertConv(c, NewRow(h.user, h.fields))
       IN  IF r.ok THEN World(r.table, b, AfterUpsert(h))
           ELSE World(c, b, Raise(h))

\* lines 335-348: the status command
Status(c, b, h) ==
  LET bk == latest_booking_for_user(b, h.user)
  IN  World(c, b,
            IF bk = NoRow THEN Return(h, Reply("no_bookings", <<>>))
            ELSE Return(h, Reply("status", Append(FiveOf(bk), bk.status))))

\* a variant of Reject: a text that is not valid sends the user back to
\* the menu
Reject_ToMenu(h, kind) ==
  CallUpsert(h, StepOnly("MENU"), "return", Reply(kind, <<>>))

\* lines 367, 374, 383, 390, 397: the text is not valid for the step, and
\* the corrective hint is returned without a write
Reject(h, kind) == Return(h, Reply(kind, <<>>))

\* a variant of Confirm: everything but "no" confirms
Confirm_UnlessNo(h, text) ==
  IF text \notin KW_NO THEN [h EXCEPT !.pc = "booking_get"]
  ELSE Return(h, Reply("no_problem", <<>>))

\* a variant of Confirm: "no" cancels the booking in progress
Confirm_NoCancels(h, text) ==
  IF text \in KW_YES THEN [h EXCEPT !.pc = "booking_get"]
  ELSE IF text \in KW_NO
  THEN CallUpsert(h, ResetFields, "return", Reply("no_problem", <<>>))
  ELSE Return(h, Reply("yes_or_cancel", <<>>))

\* lines 402-419: the dispatch at step CONFIRM
Confirm(h, text) ==
  IF text \in KW_YES THEN [h EXCEPT !.pc = "booking_get"]
  ELSE IF text \in KW_NO THEN Return(h, Reply("no_problem", <<>>))
  ELSE Return(h, Reply("yes_or_cancel", <<>>))

\* a variant of Fallback: a step that is not known is an error
Fallback_Raises(h) == Raise(h)

\* lines 421-423: the step is none of those dispatched on; the conversation
\* goes to MENU and the menu is returned
Fallback(h) == CallUpsert(h, StepOnly("MENU"), "return", Reply("menu", <<>>))

\* lines 356-423: the step is read and the message is dispatched on it;
\* env.today is what date.today() returns
ReadStep(c, b, h0, env) ==
  LET conv == get_conv(c, h0.user)
      text == TextOf[h0.body]
      step == conv.step
      h    == IF conv = NoRow THEN h0 ELSE [h0 EXCEPT !.step = step]
  IN  World(c, b,
        IF conv = NoRow THEN Raise(h)
        ELSE IF step = "MENU" THEN Return(h, Reply("menu", <<>>))
        ELSE IF step = "ASK_TYRE" THEN
          LET tyre == TyreOf[h.body]
          IN  IF Falsy(tyre) THEN Reject(h, "bad_tyre")
              ELSE CallUpsert(h, StepAndField("ASK_POSTCODE", "tyre_size", tyre),
                              "return", Reply("ask_postcode", <<>>))
        ELSE IF step = "ASK_POSTCODE" THEN
          LET pc == PostcodeOf[h.body]
          IN  IF Falsy(pc) THEN Reject(h, "bad_postcode")
              ELSE CallUpsert(h, StepAndField("ASK_BUDGET", "postcode", pc),
                              "return", Reply("ask_budget", <<>>))
        ELSE IF step = "ASK_BUDGET" THEN
          LET bud == budget_map(text)
          IN  IF Falsy(bud) THEN Reject(h, "bad_budget")
              ELSE CallUpsert(h, StepAndField("ASK_DATE", "budget", bud),
                              "return", Reply("ask_date", <<>>))
        ELSE IF step = "ASK_DATE" THEN
          LET d  == DateOf[<<h.body, env.today>>]
              h1 == IF ReadsClock[h.body]
                    THEN [h EXCEPT !.today = env.today, !.todayApp = env.todayApp]
                    ELSE h
          IN  IF Falsy(d) THEN Reject(h1, "bad_date")
              ELSE CallUpsert(h1, StepAndField("ASK_TIME", "preferred_date", d),
                              "return", Reply("ask_time", <<>>))
        ELSE IF step = "ASK_TIME" THEN
          LET tm == TimeOf[h.body]
          IN  IF Falsy(tm) THEN Reject(h, "bad_time")
              ELSE CallUpsert(h, StepAndField("CONFIRM", "preferred_time", tm),
                              "confirm_text", NoReply)
        ELSE IF step = "CONFIRM" THEN Confirm(h, text)
        ELSE Fallback(h))

\* lines 399-400: the row is read again for the confirmation summary
GetConfirm(c, b, h) ==
  LET conv == get_conv(c, h.user)
  IN  World(c, b,
            IF conv = NoRow THEN Raise(h)
            ELSE Return(h, Reply("confirm", FiveOf(conv))))

\* lines 212-217: create_booking_from_conv reads the row; with a field
\* missing it returns None, and whatsapp() resets and reports the failure
BookingGet(c, b, h) ==
  LET conv == get_conv(c, h.user)
  IN  World(c, b,
            IF conv = NoRow \/ \E i \in DOMAIN needed : Falsy(conv[needed[i]])
            THEN CallUpsert(h, ResetFields, "return", Reply("failed", <<>>))
            ELSE [h EXCEPT !.pc = "booking_insert", !.conv = conv])

\* lines 219-234: the booking is inserted from the row read before
BookingInsert(c, b, h) ==
  World(c, InsertBooking(b, h.user, h.conv),
        [h EXCEPT !.pc = "booking_latest", !.conv = NoRow])

\* a variant of BookingLatest: the confirmation is returned without
\* reset_conv
BookingLatest_NoReset(c, b, h) ==
  LET bk == latest_booking_for_user(b, h.user)
  IN  World(c, b,
            Return([h EXCEPT !.booking = bk],
                   IF bk = NoRow THEN Reply("failed", <<>>)
                   ELSE Reply("confirmed", FiveOf(bk))))

\* lines 235, 405-416: the booking returned is the user's latest one; then
\* reset_conv, and the confirmation (or the failure) is returned
BookingLatest(c, b, h) ==
  LET bk == latest_booking_for_user(b, h.user)
  IN  World(c, b,
            CallUpsert([h EXCEPT !.booking = bk], ResetFields, "return",
                       IF bk = NoRow THEN Reply("failed", <<>>)
                       ELSE Reply("confirmed", FiveOf(bk))))

\* one step of a handler that is handling a message
Step(c, b, h, env) ==
  CASE h.pc = "upsert_select"  -> UpsertSelect(c, b, h)
    [] h.pc = "upsert_write"   -> UpsertWrite(c, b, h)
    [] h.pc = "status"         -> Status(c, b, h)
    [] h.pc = "read_step"      -> ReadStep(c, b, h, env)
    [] h.pc = "get_confirm"    -> GetConfirm(c, b, h)
    [] h.pc = "booking_get"    -> BookingGet(c, b, h)
    [] h.pc = "booking_insert" -> BookingInsert(c, b, h)
    [] h.pc = "booking_latest" -> BookingLatest(c, b, h)

\* whatsapp() run to its end with no other handler in between
RECURSIVE Run(_, _, _, _)
Run(c, b, h, env) ==
  IF h.pc = "done" THEN World(c, b, h)
  ELSE LET w == Step(c, b, h, env) IN Run(w.c, w.b, w.h, env)

\* ------------------------------------------------------------------------
\* State
\* ------------------------------------------------------------------------
VARIABLES conversations, bookings, hs, tyreCheck

vars == <<conversations, bookings, hs, tyreCheck>>

\* tyreCheck is used only by SpecTyre, which calls parse_tyre_size on its own
\* (see below); the webhook specifications leave it alone
NoTyreCheck == [raw |-> <<>>, out |-> None, again |-> None, calls |-> 0]

Init ==
  /\ conversations = <<>>
  /\ bookings = <<>>
  /\ hs = [k \in Handlers |-> IdleHandler]
  /\ tyreCheck = NoTyreCheck

\* the clock is read only at step ASK_DATE, for a text strptime accepts
ClockChoices(c, user, body) ==
  IF /\ get_conv(c, user) # NoRow
     /\ get_conv(c, user).step = "ASK_DATE"
     /\ ReadsClock[body]
  THEN Envs ELSE {NoEnv}

\* Messages handled one at a time: handler 1 runs whatsapp() from the
\* arrival of the request to its response.
HandleMessage(user, body) ==
  \E env \in ClockChoices(conversations, user, body) :
    \E w0 \in {Receive(conversations, bookings, user, body)} :
    \E w \in {Run(w0.c, w0.b, w0.h, env)} :
        /\ Len(w.b) <= MaxBookings
        /\ conversations' = w.c
        /\ bookings' = w.b
        /\ hs' = [hs EXCEPT ![1] = w.h]
        /\ UNCHANGED tyreCheck

Next == \E user \in Users : \E body \in BodiesOf(user) : HandleMessage(user, body)

Spec == Init /\ [][Next]_vars

\* ------------------------------------------------------------------------
\* Concurrent handlers: every handler takes one message, and the database
\* statements of the handlers interleave (each statement is atomic, the
\* handlers share no transaction).  The table starts empty, or with user
\* u1 in the middle of a booking.
\* ------------------------------------------------------------------------
MidBooking(step, tm) ==
  [user_id |-> "u1", step |-> step,
   tyre_size |-> parse_tyre_size(<<"2","2","5","/","4","0","R","1","8">>),
   postcode |-> parse_postcode(<<"b","7","4"," ","2","a","a">>),
   budget |-> L_MIDRANGE,
   preferred_date |-> IsoFormat(Days[2]),
   preferred_time |-> tm]

InitConc ==
  /\ conversations \in
       { <<>>,
         <<MidBooking("ASK_TIME", None)>>,
         <<MidBooking("CONFIRM", parse_time_hh_mm(<<"0","9",":","0","5">>))>> }
  /\ bookings = <<>>
  /\ hs = [k \in Handlers |-> IdleHandler]
  /\ tyreCheck = NoTyreCheck

\* a request arrives at an idle handler, which looks for the user's row
ReceiveMessage(k, user, body) ==
  /\ hs[k].pc = "idle"
  /\ \E w \in {Receive(conversations, bookings, user, body)} :
       /\ hs' = [hs EXCEPT ![k] = w.h]
       /\ UNCHANGED <<conversations, bookings, tyreCheck>>

\* handler k executes the statement it is at
StepAt(k, pc, envs) ==
  /\ hs[k].pc = pc
  /\ \E env \in envs :
     \E w \in {Step(conversations, bookings, hs[k], env)} :
       /\ Len(w.b) <= MaxBookings
       /\ conversations' = w.c
       /\ bookings' = w.b
       /\ hs' = [hs EXCEPT ![k] = w.h]
       /\ UNCHANGED tyreCheck

UpsertSelectStep(k) == StepAt(k, "upsert_select", {NoEnv})

UpsertWriteStep(k) == StepAt(k, "upsert_write", {NoEnv})

StatusStep(k) == StepAt(k, "status", {NoEnv})

ReadStepStep(k) ==
  StepAt(k, "read_step", ClockChoices(conversations, hs[k].user, hs[k].body))

GetConfirmStep(k) == StepAt(k, "get_confirm", {NoEnv})

BookingGetStep(k) == StepAt(k, "booking_get", {NoEnv})

BookingInsertStep(k) == StepAt(k, "booking_insert", {NoEnv})

BookingLatestStep(k) == StepAt(k, "booking_latest", {NoEnv})

NextConc ==
  \E k \in Handlers :
    \/ \E user \in Users : \E body \in ConcBodies : ReceiveMessage(k, user, body)
    \/ UpsertSelectStep(k)
    \/ UpsertWriteStep(k)
    \/ StatusStep(k)
    \/ ReadStepStep(k)
    \/ GetConfirmStep(k)
    \/ BookingGetStep(k)
    \/ BookingInsertStep(k)
    \/ BookingLatestStep(k)

SpecConc == InitConc /\ [][NextConc]_vars

\* ------------------------------------------------------------------------
\* A database file that was not written by this code alone: bot.db outlives
\* the process (init_db creates the tables only if they do not exist) and
\* the step column is unconstrained TEXT, so the table may start with a
\* row whose step is none of STEPS.  Messages are handled one at a time.
\* ------------------------------------------------------------------------
StoredRow == MidBooking("ASK_NAME", None)

InitStored ==
  /\ conversations \in { <<>>, <<StoredRow>> }
  /\ bookings = <<>>
  /\ hs = [k \in Handlers |-> IdleHandler]
  /\ tyreCheck = NoTyreCheck

SpecStored == InitStored /\ [][Next]_vars

\* ------------------------------------------------------------------------
\* parse_tyre_size on its own: it is called on a raw text and, when it
\* accepts, called again on what it returned.  The raw texts are a width,
\* a slash, an aspect ratio, a construction letter and a rim, with
\* whitespace between the parts.
\* ------------------------------------------------------------------------
TyreGaps == { <<>>, <<" ">>, <<"\t">>, <<" ", " ">> }

TyreWidths == { <<"2","2","5">>, <<"2","2">> }

TyreLetters == { <<>>, <<"R">>, <<"r">>, <<"x">> }

TyreTexts ==
  { g[1] \o w \o g[2] \o <<"/">> \o g[3] \o <<"4","0">> \o g[4] \o l
      \o g[5] \o <<"1","8">> :
    g \in [1 .. 5 -> TyreGaps], w \in TyreWidths, l \in TyreLetters }

InitTyre ==
  /\ conversations = <<>>
  /\ bookings = <<>>
  /\ hs = [k \in Handlers |-> IdleHandler]
  /\ tyreCheck \in { [NoTyreCheck EXCEPT !.raw = t] : t \in TyreTexts }

\* parse_tyre_size(raw)
ParseRaw ==
  /\ tyreCheck.calls = 0
  /\ tyreCheck' = [tyreCheck EXCEPT !.out = parse_tyre_size(tyreCheck.raw),
                                    !.calls = 1]
  /\ UNCHANGED <<conversations, bookings, hs>>

\* parse_tyre_size(out), out being a text parse_tyre_size returned
ParseAgain ==
  /\ tyreCheck.calls = 1
  /\ tyreCheck.out # None
  /\ tyreCheck' = [tyreCheck EXCEPT !.again = parse_tyre_size(tyreCheck.out),
                                    !.calls = 2]
  /\ UNCHANGED <<conversations, bookings, hs>>

NextTyre == ParseRaw \/ ParseAgain

SpecTyre == InitTyre /\ [][NextTyre]_vars

\* ------------------------------------------------------------------------
\* Properties.  A handler at "done" has answered its message: pre is the
\* database when the request arrived, and the variables are the database
\* after the response.
\* ------------------------------------------------------------------------
Done(k) == hs[k].pc = "done"

TextAt(k) == TextOf[hs[k].body]

\* the user's row before and after the message
PreRow(k) == get_conv(hs[k].pre.convs, hs[k].user)

PostRow(k) == get_conv(conversations, hs[k].user)

\* the row existed, at this step, when the message arrived
PreStep(k, step) == PreRow(k) # NoRow /\ PreRow(k).step = step

FullRow(r) == \A i \in DOMAIN needed : ~Falsy(r[needed[i]])

EmptyRow(r) == \A i \in DOMAIN needed : r[needed[i]] = None

\* the global commands of the specification: reset, menu, info, status
GlobalKeywords == KW_MENU \cup KW_CANCEL \cup KW_INFO \cup KW_STATUS

\* C1 (as claimed): at ASK_BUDGET every accepted tier token, the numerals
\* included, stores its label in budget, moves the step to ASK_DATE and
\* leaves the other four fields as they were.
C1_TierTokenStored ==
  \A k \in Handlers :
    (Done(k) /\ PreStep(k, "ASK_BUDGET") /\ budget_map(TextAt(k)) # None)
      => /\ PostRow(k).step = "ASK_DATE"
         /\ PostRow(k).budget = budget_map(TextAt(k))
         /\ PostRow(k) = [PreRow(k) EXCEPT !.step = "ASK_DATE",
                                           !.budget = budget_map(TextAt(k))]

\* C2 (as claimed): the info keyword is answered with the informational
\* text and leaves the step and the five fields unchanged.
C2_InfoKeepsStep ==
  \A k \in Handlers :
    (Done(k) /\ PreRow(k) # NoRow /\ TextAt(k) \in KW_INFO)
      => /\ hs[k].replies = <<Reply("info", <<>>)>>
         /\ PostRow(k) = PreRow(k)

\* C2 (amended): the info keyword is answered with the informational text,
\* leaves the five fields unchanged and sets the step to MENU.
C2_InfoGoesToMenu ==
  \A k \in Handlers :
    (Done(k) /\ PreRow(k) # NoRow /\ TextAt(k) \in KW_INFO)
      => /\ hs[k].replies = <<Reply("info", <<>>)>>
         /\ PostRow(k) = [PreRow(k) EXCEPT !.step = "MENU"]
         /\ bookings = hs[k].pre.bks

C2_Witness ==
  \E k \in Handlers :
    /\ Done(k) /\ PreStep(k, "ASK_DATE") /\ TextAt(k) \in KW_INFO
    /\ PostRow(k).step = "MENU" /\ ~Falsy(PostRow(k).budget)

\* the text is not valid for the step the conversation was at
InvalidForStep(k) ==
  LET step == PreRow(k).step
  IN  \/ step = "MENU" /\ TextAt(k) \notin KW_BOOK
      \/ step = "ASK_TYRE" /\ Falsy(TyreOf[hs[k].body])
      \/ step = "ASK_POSTCODE" /\ Falsy(PostcodeOf[hs[k].body])
      \/ step = "ASK_BUDGET" /\ Falsy(budget_map(TextAt(k)))
      \/ step = "ASK_DATE" /\ Falsy(DateOf[<<hs[k].body, hs[k].today>>])
      \/ step = "ASK_TIME" /\ Falsy(TimeOf[hs[k].body])

\* C3 (as claimed): at every step but CONFIRM, a text that is no global
\* command (reset, menu, info, status) and is not valid for the step leaves
\* the step and the five fields as they were.
C3_InvalidKeepsState ==
  \A k \in Handlers :
    (/\ Done(k) /\ PreRow(k) # NoRow /\ PreRow(k).step # "CONFIRM"
     /\ TextAt(k) \notin GlobalKeywords
     /\ InvalidForStep(k))
      => PostRow(k) = PreRow(k)

\* C3 (amended): at every step but CONFIRM, a text that is no global
\* command, is not the book keyword and is not valid for the step leaves
\* the step and the five fields as they were; one reply is produced.
C3_InvalidNonBookKeepsState ==
  \A k \in Handlers :
    (/\ Done(k) /\ PreRow(k) # NoRow /\ PreRow(k).step # "CONFIRM"
     /\ TextAt(k) \notin GlobalKeywords
     /\ TextAt(k) \notin KW_BOOK
     /\ InvalidForStep(k))
      => /\ PostRow(k) = PreRow(k)
         /\ Len(hs[k].replies) = 1
         /\ bookings = hs[k].pre.bks

C3_Witness ==
  \E k \in Handlers :
    /\ Done(k) /\ PreStep(k, "ASK_DATE")
    /\ hs[k].replies = <<Reply("bad_date", <<>>)>>
    /\ hs[k].today # NoDay
    /\ PostRow(k) = PreRow(k)

\* C4: the handling of a message inserts a booking if and only if the
\* message is the affirmative keyword at step CONFIRM and the five fields
\* of the user's conversation were non-empty before it; it then inserts
\* exactly one, and every booking of the table has five non-empty fields.
C4_BookingIffConfirmed ==
  /\ \A i \in DOMAIN bookings : FullRow(bookings[i])
  /\ \A k \in Handlers :
       Done(k) =>
         /\ (bookings # hs[k].pre.bks)
              <=> (/\ PreStep(k, "CONFIRM") /\ TextAt(k) \in KW_YES
                   /\ FullRow(PreRow(k)))
         /\ bookings # hs[k].pre.bks =>
              /\ Len(bookings) = Len(hs[k].pre.bks) + 1
              /\ SubSeq(bookings, 1, Len(hs[k].pre.bks)) = hs[k].pre.bks

C4_Witness ==
  \E k \in Handlers :
    /\ Done(k) /\ PreStep(k, "CONFIRM") /\ TextAt(k) \in KW_YES
    /\ Len(bookings) = Len(hs[k].pre.bks) + 1
    /\ FiveOf(bookings[Len(bookings)]) = FiveOf(PreRow(k))

\* the rows of a table that belong to other users
OthersRows(convs, user) == SelectSeq(convs, LAMBDA r : r.user_id # user)

\* C5: whatever the step and the fields, the reset keyword leaves the user
\* with one row, at step MENU with the five fields empty; the rows of other
\* users and the bookings are as before.
C5_ResetClears ==
  \A k \in Handlers :
    (Done(k) /\ TextAt(k) \in KW_CANCEL)
      => /\ PostRow(k) # NoRow
         /\ PostRow(k).step = "MENU"
         /\ EmptyRow(PostRow(k))
         /\ Len(conversations) = Len(OthersRows(conversations, hs[k].user)) + 1
         /\ OthersRows(conversations, hs[k].user)
              = OthersRows(hs[k].pre.convs, hs[k].user)
         /\ bookings = hs[k].pre.bks

C5_Witness ==
  \E k \in Handlers :
    /\ Done(k) /\ TextAt(k) \in KW_CANCEL
    /\ PreStep(k, "CONFIRM") /\ FullRow(PreRow(k))
    /\ bookings # <<>>
    /\ EmptyRow(PostRow(k))

\* upper case, and one space, right before the inward part (digit, letter,
\* letter), and no other whitespace
CanonicalPostcode(p) ==
  /\ Len(p) >= 5
  /\ p = Upper(p)
  /\ \A i \in DOMAIN p : (p[i] \in Whitespace) <=> (i = Len(p) - 3)
  /\ p[Len(p) - 3] = " "
  /\ IsDigit(p[Len(p) - 2])
  /\ p[Len(p) - 1] \in UpperCls /\ p[Len(p)] \in UpperCls

\* C6 (as claimed): every location code accepted at ASK_LOCATION is stored
\* in canonical form and the step advances to ASK_BUDGET; "b742aa" is
\* accepted and stored as "B74 2AA".
C6_PostcodeCanonical ==
  \A k \in Handlers :
    /\ (Done(k) /\ PreStep(k, "ASK_POSTCODE") /\ ~Falsy(PostcodeOf[hs[k].body]))
         => /\ PostRow(k).step = "ASK_BUDGET"
            /\ CanonicalPostcode(PostRow(k).postcode)
    /\ (Done(k) /\ PreStep(k, "ASK_POSTCODE")
          /\ hs[k].body = <<"b","7","4","2","a","a">>)
         => /\ PostRow(k).step = "ASK_BUDGET"
            /\ PostRow(k).postcode = <<"B","7","4"," ","2","A","A">>

\* the number of rows of the conversations table for a user
RowsOf(convs, user) ==
  Cardinality({ i \in DOMAIN convs : convs[i].user_id = user })

\* C7: the conversations table never holds two rows for one user, also
\* when handlers interleave on an unseen user, and a row is never deleted.
C7_OneRowPerUser ==
  /\ [](\A u \in Users : RowsOf(conversations, u) <= 1)
  /\ [][\A u \in Users : RowsOf(conversations, u) <= RowsOf(conversations', u)]_vars

\* two handlers found no row for the same user; one inserted it, the
\* other's INSERT was refused
C7_Witness ==
  \E k \in Handlers : \E j \in Handlers \ {k} :
    /\ Done(k) /\ Done(j) /\ hs[k].user = hs[j].user
    /\ hs[k].http = 500 /\ hs[j].http = 200
    /\ RowsOf(conversations, hs[k].user) = 1

\* C8 (as claimed): every message handled yields exactly one reply text.
C8_ExactlyOneReply ==
  \A k \in Handlers : Done(k) => Len(hs[k].replies) = 1

\* C9 (as claimed): at ASK_DATE a well-formed date is rejected exactly when
\* it is before today in APP_TIMEZONE; otherwise it is stored and the step
\* advances to ASK_TIME.
C9_RejectedIffBeforeAppToday ==
  \A k \in Handlers :
    (Done(k) /\ PreStep(k, "ASK_DATE") /\ hs[k].today # NoDay)
      => LET d == StrpDate(norm(hs[k].body))
         IN  IF DateLess(d, hs[k].todayApp)
             THEN PostRow(k) = PreRow(k)
             ELSE PostRow(k) = [PreRow(k) EXCEPT !.step = "ASK_TIME",
                                                 !.preferred_date = IsoFormat(d)]

\* the bookings of a user
BookingsOf(bks, user) == { i \in DOMAIN bks : bks[i].user_id = user }

\* C10: the status keyword leaves the user's row and the bookings as they
\* were; the reply is the no-bookings message when the user has none, and
\* else summarizes the user's booking with the highest id.
C10_StatusReadsLatest ==
  \A k \in Handlers :
    (Done(k) /\ TextAt(k) \in KW_STATUS)
      => /\ PreRow(k) # NoRow => PostRow(k) = PreRow(k)
         /\ bookings = hs[k].pre.bks
         /\ IF BookingsOf(bookings, hs[k].user) = {}
            THEN hs[k].replies = <<Reply("no_bookings", <<>>)>>
            ELSE \E i \in BookingsOf(bookings, hs[k].user) :
                   /\ \A j \in BookingsOf(bookings, hs[k].user) :
                        bookings[j].id <= bookings[i].id
                   /\ hs[k].replies =
                        <<Reply("status", Append(FiveOf(bookings[i]), "CONFIRMED"))>>

\* the user has two different bookings and has since started a new
\* booking, and asks for the status
C10_Witness ==
  \E k \in Handlers :
    /\ Done(k) /\ TextAt(k) \in KW_STATUS
    /\ PreStep(k, "ASK_POSTCODE")
    /\ \E i, j \in BookingsOf(bookings, hs[k].user) :
         i < j /\ FiveOf(bookings[i]) # FiveOf(bookings[j])
    /\ hs[k].replies # <<>>

\* C11: parse_tyre_size is idempotent on its own output: whenever it accepts
\* a raw text, the text it returns is accepted too and parses to itself.
C11_TyreIdempotent ==
  /\ (tyreCheck.calls >= 1 /\ tyreCheck.out # None)
       => parse_tyre_size(tyreCheck.out) = tyreCheck.out
  /\ tyreCheck.calls = 2 => tyreCheck.again = tyreCheck.out

\* a raw text with a tab and a lower-case letter was accepted, and what
\* came back, a different text, was parsed again
C11_Witness ==
  /\ tyreCheck.calls = 2
  /\ tyreCheck.raw # tyreCheck.out
  /\ "\t" \in Range(tyreCheck.raw)
  /\ "r" \in Range(tyreCheck.raw)
  /\ tyreCheck.again # None

\* C12 (as claimed): at CONFIRM every text other than the affirmative
\* keyword and the global commands (reset, menu, info, status) leaves the
\* step at CONFIRM and the five fields unchanged, and creates no booking.
C12_ConfirmOtherKeepsState ==
  \A k \in Handlers :
    (/\ Done(k) /\ PreStep(k, "CONFIRM")
     /\ TextAt(k) \notin KW_YES \cup GlobalKeywords)
      => /\ PostRow(k) = PreRow(k)
         /\ bookings = hs[k].pre.bks

\* C12 (amended): at CONFIRM every text other than the affirmative keyword,
\* the global commands and the book keyword leaves the step at CONFIRM and
\* the five fields unchanged, and creates no booking; the book keyword
\* clears the five fields and sets the step to ASK_TYRE.
C12_ConfirmOtherNonBookKeepsState ==
  \A k \in Handlers :
    (/\ Done(k) /\ PreStep(k, "CONFIRM")
     /\ TextAt(k) \notin KW_YES \cup GlobalKeywords)
      => /\ bookings = hs[k].pre.bks
         /\ Len(hs[k].replies) = 1
         /\ IF TextAt(k) \in KW_BOOK
            THEN /\ PostRow(k).step = "ASK_TYRE"
                 /\ EmptyRow(PostRow(k))
            ELSE PostRow(k) = PreRow(k)

\* "no" was answered at CONFIRM and the five fields are still there
C12_Witness ==
  \E k \in Handlers :
    /\ Done(k) /\ PreStep(k, "CONFIRM") /\ TextAt(k) \in KW_NO
    /\ hs[k].replies = <<Reply("no_problem", <<>>)>>
    /\ PostRow(k).step = "CONFIRM" /\ FullRow(PostRow(k))

\* C13: at any step the menu keyword sets the step to MENU and changes none
\* of the five fields; it is answered with the menu, whatever the step and
\* whatever the text would have meant to the step.
C13_MenuKeepsFields ==
  \A k \in Handlers :
    (Done(k) /\ TextAt(k) \in KW_MENU)
      => /\ hs[k].replies = <<Reply("menu", <<>>)>>
         /\ PostRow(k) # NoRow
         /\ PostRow(k).step = "MENU"
         /\ FiveOf(PostRow(k))
              = (IF PreRow(k) = NoRow THEN <<None, None, None, None, None>>
                 ELSE FiveOf(PreRow(k)))
         /\ bookings = hs[k].pre.bks

\* the menu keyword arrived in the middle of a booking
C13_Witness ==
  \E k \in Handlers :
    /\ Done(k) /\ TextAt(k) \in KW_MENU
    /\ PreStep(k, "ASK_TIME")
    /\ PostRow(k).step = "MENU"
    /\ ~Falsy(PostRow(k).preferred_date)

\* the handler dispatched the affirmative keyword at step CONFIRM
YesAtConfirm(h) ==
  h.pc # "idle" /\ h.step = "CONFIRM" /\ TextOf[h.body] \in KW_YES

\* the handlers that have inserted a booking
Inserters ==
  { k \in Handlers : hs[k].pc = "booking_latest" \/ hs[k].booking # NoRow }

\* C14: when the affirmative keyword is processed at CONFIRM, the handler
\* answers with the confirmation or with the generic failure message, and
\* its last write leaves the conversation at MENU with the five fields
\* empty; materialization fails exactly when a required field is empty,
\* and then the handler inserts no booking (every booking of the table was
\* inserted by a handler that did not fail).
C14_YesEndsAtMenu ==
  /\ [](/\ Len(bookings) = Cardinality(Inserters)
        /\ \A k \in Handlers :
             (Done(k) /\ YesAtConfirm(hs[k])) =>
               /\ hs[k].http = 200
               /\ hs[k].replies =
                    <<IF hs[k].booking = NoRow THEN Reply("failed", <<>>)
                      ELSE Reply("confirmed", FiveOf(hs[k].booking))>>)
  /\ [][\A k \in Handlers :
         /\ (hs[k].pc = "booking_get" /\ hs'[k] # hs[k]) =>
              /\ bookings' = bookings
              /\ hs'[k].pc = "booking_insert"
                   <=> FullRow(get_conv(conversations, hs[k].user))
         /\ (~Done(k) /\ hs'[k].pc = "done" /\ YesAtConfirm(hs[k])) =>
              /\ get_conv(conversations', hs[k].user).step = "MENU"
              /\ EmptyRow(get_conv(conversations', hs[k].user))]_vars

\* the affirmative keyword was dispatched at CONFIRM, a field was empty
\* when the booking was to be made, and the failure was reported
C14_Witness ==
  \E k \in Handlers :
    /\ Done(k) /\ YesAtConfirm(hs[k])
    /\ hs[k].replies = <<Reply("failed", <<>>)>>
    /\ bookings = <<>>
    /\ PostRow(k).step = "MENU" /\ EmptyRow(PostRow(k))

\* C15 (as claimed): when the affirmative message of a user is handled twice
\* for one arrival at CONFIRM, one after the other or interleaved, only one
\* of the two handlers inserts a booking.
C15_OneBookingPerConfirm ==
  \A k \in Handlers : \A j \in Handlers \ {k} :
    (/\ YesAtConfirm(hs[k]) /\ YesAtConfirm(hs[j])
     /\ hs[k].user = hs[j].user)
      => ~(k \in Inserters /\ j \in Inserters)

\* C16: a booking created by a confirmation carries the user's id, the five
\* field values the user's conversation held when the confirmation arrived
\* and status CONFIRMED, and its id is greater than every id assigned
\* before; no step modifies or deletes a booking that exists.
C16_BookingSnapshotImmutable ==
  /\ [](\A k \in Handlers :
          (Done(k) /\ bookings # hs[k].pre.bks) =>
            LET new == bookings[Len(bookings)]
            IN  /\ Len(bookings) = Len(hs[k].pre.bks) + 1
                /\ new.user_id = hs[k].user
                /\ FiveOf(new) = FiveOf(PreRow(k))
                /\ new.status = "CONFIRMED"
                /\ \A i \in DOMAIN hs[k].pre.bks : hs[k].pre.bks[i].id < new.id)
  /\ [][/\ Len(bookings') >= Len(bookings)
        /\ SubSeq(bookings', 1, Len(bookings)) = bookings]_vars

\* a user's second booking, with other values than the first, which is
\* still in the table as it was
C16_Witness ==
  \E k \in Handlers :
    /\ Done(k) /\ Len(hs[k].pre.bks) = 1 /\ Len(bookings) = 2
    /\ bookings[1] = hs[k].pre.bks[1]
    /\ bookings[2].user_id = bookings[1].user_id
    /\ FiveOf(bookings[2]) # FiveOf(bookings[1])
    /\ bookings[2].id > bookings[1].id

\* the bookings of a user, in insertion order
BookingRowsOf(bks, user) == SelectSeq(bks, LAMBDA r : r.user_id = user)

\* C17: a step of a handler changes the conversation row and the bookings
\* of no user but the one whose message it handles, whatever the handlers
\* of other users are doing in between.
C17_UsersIndependent ==
  [][\A k \in Handlers :
       hs'[k] # hs[k] =>
         \A v \in Users \ {hs'[k].user} :
           /\ get_conv(conversations', v) = get_conv(conversations, v)
           /\ RowsOf(conversations', v) = RowsOf(conversations, v)
           /\ BookingRowsOf(bookings', v) = BookingRowsOf(bookings, v)]_vars

\* the messages of two users were handled at the same time: one user has
\* confirmed a booking, the other has a row of their own
C17_Witness ==
  \E k \in Handlers : \E j \in Handlers \ {k} :
    /\ Done(k) /\ Done(j) /\ hs[k].user # hs[j].user
    /\ hs[k].pre.convs # <<>> /\ get_conv(hs[j].pre.convs, hs[j].user) = NoRow
    /\ hs[j].pre.bks = <<>>
    /\ BookingRowsOf(bookings, hs[k].user) # <<>>
    /\ PostRow(j) # NoRow /\ PostRow(k) # NoRow

\* every stored step is one of STEPS
StepsKnown(convs) == \A i \in DOMAIN convs : convs[i].step \in STEPS

\* C18: the code stores no step outside STEPS (steps that are all in STEPS
\* stay so, and every row a message inserts or changes has a step of
\* STEPS); a newly seen user gets a row at MENU; and a message dispatched
\* on a stored step outside STEPS sets the step to MENU and is answered
\* with the menu, not with an error.
C18_StepInEnumeration ==
  /\ [](\A k \in Handlers :
          /\ (Done(k) /\ PreRow(k) = NoRow) =>
               /\ PostRow(k) # NoRow
               /\ PostRow(k).step
                    = (IF TextAt(k) \in KW_BOOK THEN "ASK_TYRE" ELSE "MENU")
               /\ hs[k].http = 200
          /\ (Done(k) /\ PreRow(k) # NoRow /\ PreRow(k).step \notin STEPS
                /\ hs[k].step # "") =>
               /\ hs[k].http = 200
               /\ hs[k].replies = <<Reply("menu", <<>>)>>
               /\ PostRow(k) = [PreRow(k) EXCEPT !.step = "MENU"])
  /\ [][/\ StepsKnown(conversations) => StepsKnown(conversations')
        /\ \A u \in Users :
             get_conv(conversations', u) # get_conv(conversations, u)
               => get_conv(conversations', u).step \in STEPS]_vars

\* a text that is no command was dispatched on a stored step outside STEPS
C18_Witness ==
  \E k \in Handlers :
    /\ Done(k) /\ PreRow(k) # NoRow /\ PreRow(k).step \notin STEPS
    /\ hs[k].step = PreRow(k).step
    /\ PostRow(k).step = "MENU"
    /\ hs[k].replies = <<Reply("menu", <<>>)>>

\* the first n of the five fields are set and the others are empty
FieldsPrefix(r, n) ==
  \A i \in DOMAIN needed :
    IF i <= n THEN ~Falsy(r[needed[i]]) ELSE r[needed[i]] = None

\* the number of fields collected when a conversation is at a step
CollectedAt(step) ==
  CASE step = "ASK_TYRE"     -> 0
    [] step = "ASK_POSTCODE" -> 1
    [] step = "ASK_BUDGET"   -> 2
    [] step = "ASK_DATE"     -> 3
    [] step = "ASK_TIME"     -> 4
    [] step = "CONFIRM"      -> 5

\* C19: with messages handled one at a time, the collected fields of every
\* conversation are the prefix that matches its step: none at ASK_TYRE, the
\* size at ASK_POSTCODE, ..., all five at CONFIRM; at MENU they are some
\* prefix.
C19_FieldsMatchStep ==
  \A i \in DOMAIN conversations :
    LET r == conversations[i]
    IN  IF r.step = "MENU"
        THEN \E n \in 0 .. Len(needed) : FieldsPrefix(r, n)
        ELSE r.step \in STEPS /\ FieldsPrefix(r, CollectedAt(r.step))

\* after a first booking, a new booking is at ASK_POSTCODE with the size
\* only
C19_Witness ==
  \E k \in Handlers :
    /\ Done(k) /\ PreStep(k, "ASK_TYRE")
    /\ PostRow(k).step = "ASK_POSTCODE" /\ FieldsPrefix(PostRow(k), 1)
    /\ bookings # <<>>

\* two-digit hour, colon, two-digit minute, in 24-hour range
ExactHHMM(t) ==
  /\ Len(t) = 5
  /\ \A i \in {1, 2, 4, 5} : IsDigit(t[i])
  /\ t[3] = ":"
  /\ NumVal(SubSeq(t, 1, 2)) <= 23
  /\ NumVal(SubSeq(t, 4, 5)) <= 59

\* C20 (as claimed): at ASK_TIME a text is accepted only if, trimmed, it is
\* exactly two-digit hour, colon, two-digit minute in 24-hour range; that
\* same text is then stored and the step advances to CONFIRM; every other
\* text leaves the step and the time field unchanged.
C20_TimeExactlyHHMM ==
  \A k \in Handlers :
    (/\ Done(k) /\ PreStep(k, "ASK_TIME")
     /\ TextAt(k) \notin GlobalKeywords \cup KW_BOOK)
      => IF ExactHHMM(norm(hs[k].body))
         THEN PostRow(k) = [PreRow(k) EXCEPT !.step = "CONFIRM",
                                             !.preferred_time = norm(hs[k].body)]
         ELSE PostRow(k) = PreRow(k)

====
